---- MODULE Spec2Model ----
(***************************************************************************)
(* Link registry, short-code allocation and link resolution of the         *)
(* HouseSage backend (a URL shortener).                                     *)
(*                                                                         *)
(* The state is the content of the links and events tables, the members    *)
(* of one space, the wall clock, the requests in flight, and the response  *)
(* of the most recent request.  A call is modelled                          *)
(* by the body of the function it names; what each function reads, tests   *)
(* and writes is taken from that body.  A dict is a function whose domain  *)
(* is the set of its keys; dict.get(k) is Get.                              *)
(***************************************************************************)
EXTENDS Integers, Sequences, FiniteSets, TLC

VARIABLES links, events, now, last, deleted_keys, pc, req, space_users, space_req

vars == <<links, events, now, last, deleted_keys, pc, req, space_users, space_req>>

(***************************************************************************)
(* Bounds of the model.                                                     *)
(***************************************************************************)
MaxLinks == 2
MaxEvents == 1
MaxTime == 1
MaxAttempts == 2
MaxFullDraw == 2

(***************************************************************************)
(* Python values.  None is one value per column type so that a column      *)
(* always holds values of one kind: the None of a string, of a short       *)
(* code / url (a sequence) and of a timestamp (the empty sequence; a set   *)
(* timestamp t is <<t>>).                                                   *)
(***************************************************************************)
None == "None"
NoCode == << >>
NoUrl == << >>
NoTime == << >>

Range(s) == {s[i] : i \in DOMAIN s}

Get(d, k, default) == IF k \in DOMAIN d THEN d[k] ELSE default

\* bool(x) of an Optional[str]: None and the empty string are falsy.
Truthy(s) == s # None /\ s # ""

(***************************************************************************)
(* app/core/config.py                                                       *)
(***************************************************************************)
SHORT_CODE_LENGTH == 6
MAX_SHORT_CODE_LENGTH == 20

(***************************************************************************)
(* app/core/short_code.py: the alphabets.  A short code is a sequence of   *)
(* one-character strings.                                                   *)
(***************************************************************************)
LowerLetters ==
    << "a", "b", "c", "d", "e", "f", "g", "h", "i", "j", "k", "l", "m",
       "n", "o", "p", "q", "r", "s", "t", "u", "v", "w", "x", "y", "z" >>
UpperLetters ==
    << "A", "B", "C", "D", "E", "F", "G", "H", "I", "J", "K", "L", "M",
       "N", "O", "P", "Q", "R", "S", "T", "U", "V", "W", "X", "Y", "Z" >>
Digits == << "0", "1", "2", "3", "4", "5", "6", "7", "8", "9" >>

ALPHABET == Range(LowerLetters) \cup Range(UpperLetters) \cup Range(Digits)
AMBIGUOUS_CHARS == {"0", "O", "1", "l", "I"}
SAFE_ALPHABET == ALPHABET \ AMBIGUOUS_CHARS

\* str.lower() on one character, and on a code.
LowerChar(ch) ==
    IF \E i \in DOMAIN UpperLetters : UpperLetters[i] = ch
    THEN LowerLetters[CHOOSE i \in DOMAIN UpperLetters : UpperLetters[i] = ch]
    ELSE ch
Lower(code) == [i \in DOMAIN code |-> LowerChar(code[i])]

\* is_valid_short_code(code)
is_valid_short_code(code) ==
    IF code = NoCode THEN FALSE
    ELSE IF Len(code) > MAX_SHORT_CODE_LENGTH THEN FALSE
    ELSE \A i \in DOMAIN code : code[i] \in SAFE_ALPHABET

\* LinkCreate.validate_short_code: re.match(r'^[a-zA-Z0-9_-]+$', v), v.lower()
ShortCodePattern(code) ==
    /\ Len(code) >= 1
    /\ \A i \in DOMAIN code : code[i] \in ALPHABET \cup {"_", "-"}
validate_short_code(v) == IF v = NoCode THEN v ELSE Lower(v)

\* generate_short_code(length): random.choices(SAFE_ALPHABET, k=length).  The
\* random draws range over the codes made of one repeated character of
\* GenChars, a subset of SAFE_ALPHABET.
GenChars == {"a", "B"}
generate_short_code(length) == {[i \in 1..length |-> ch] : ch \in GenChars}

\* random.choices(population, k): k independent draws; no draw for k <= 0.
\* Up to MaxFullDraw draws range over every sequence, more draws over the
\* sequences of one repeated character.
random_choices(population, k) ==
    IF k <= MaxFullDraw THEN [1..k -> population]
    ELSE {[i \in 1..k |-> ch] : ch \in population}

\* A generator that draws from the alphabet with its ambiguous characters.
GeneratedCodesUnfiltered(length) == random_choices(ALPHABET, length)

\* generate_short_code(length) with its draws over all of SAFE_ALPHABET.
GeneratedCodes(length) == random_choices(SAFE_ALPHABET, length)

(***************************************************************************)
(* app/api/schemas.py: the link data variants (their model_dump()).        *)
(* A url is <<scheme prefix, rest>>.                                        *)
(***************************************************************************)
SimpleLinkData(url, track, password, expires_at) ==
    [type |-> "simple", url |-> url, track |-> track,
     password |-> password, expires_at |-> expires_at]
RoundRobinLinkData(urls, track, password, expires_at) ==
    [type |-> "round_robin", urls |-> urls, track |-> track,
     password |-> password, expires_at |-> expires_at]
ComplexLinkData(rules, track, password, expires_at) ==
    [type |-> "complex", rules |-> rules, track |-> track,
     password |-> password, expires_at |-> expires_at]

UrlA == <<"https://", "a.example">>
UrlB == <<"https://", "b.example">>
UrlC == <<"http://", "c.example">>

\* Urls the validators meet: another scheme, a script, a trailing blank,
\* blanks only.
UrlFtp == <<"ftp://", "a.example">>
UrlScript == <<"javascript:", "alert(1)">>
UrlPadded == <<"https://", "a.example", " ">>
UrlBlank == <<" ">>

\* str.strip(): the blanks at both ends removed.
RECURSIVE StripLeft(_)
StripLeft(v) == IF v # << >> /\ Head(v) = " " THEN StripLeft(Tail(v)) ELSE v
RECURSIVE StripRight(_)
StripRight(v) ==
    IF v # << >> /\ v[Len(v)] = " " THEN StripRight(SubSeq(v, 1, Len(v) - 1)) ELSE v
Strip(v) == StripRight(StripLeft(v))

\* v.startswith('http://') or v.startswith('https://')
StartsWithHttp(v) == v # << >> /\ Head(v) \in {"http://", "https://"}

\* The checks of SimpleLinkData.validate_url, which returns v.strip().
UrlAccepted(v) == v # << >> /\ Strip(v) # << >> /\ StartsWithHttp(v)

\* Field(..., min_length=1) and RoundRobinLinkData.validate_urls, which
\* returns v.
UrlsAccepted(v) ==
    /\ v # << >>
    /\ \A i \in DOMAIN v : UrlAccepted(v[i])

\* Validation of the data field of a request body (a dict) by the
\* discriminated union: the variant named by type, its required field, and
\* the field validators of the variant.  ComplexLinkData has no validator:
\* rules is Dict[str, Any].
LinkDataAccepted(raw) ==
    /\ "type" \in DOMAIN raw
    /\ IF raw.type = "simple"
       THEN "url" \in DOMAIN raw /\ UrlAccepted(raw.url)
       ELSE IF raw.type = "round_robin"
       THEN "urls" \in DOMAIN raw /\ UrlsAccepted(raw.urls)
       ELSE IF raw.type = "complex"
       THEN "rules" \in DOMAIN raw
       ELSE FALSE

\* The fields of the validated model that the body supplied: the url is
\* the stripped one.
LinkDataFields(raw) ==
    IF raw.type = "simple" THEN [raw EXCEPT !.url = Strip(@)] ELSE raw

\* The payloads requests carry: in the registry runs one payload, in the
\* resolution runs one per gate and variant.
DataInputs == { SimpleLinkData(UrlA, TRUE, None, NoTime) }
ResolveDataInputs ==
    { SimpleLinkData(UrlA, TRUE, None, NoTime),
      SimpleLinkData(UrlB, FALSE, "p", <<0>>),
      RoundRobinLinkData(<<UrlA, UrlB>>, TRUE, "p", NoTime) }

Titles == {"T"}
Passwords == {None, "p", "q"}

(***************************************************************************)
(* app/models/models.py: the domains table (domain administration is not   *)
(* modelled; the table is fixed).                                           *)
(***************************************************************************)
domains ==
    { [domain |-> "d1.test", verified |-> TRUE, is_active |-> TRUE],
      [domain |-> "d2.test", verified |-> TRUE, is_active |-> FALSE],
      [domain |-> "d3.test", verified |-> FALSE, is_active |-> TRUE] }
DomainInputs == {"d1.test", "d2.test", "d3.test", "dx.test"}

\* crud_domain.get_domain: .first() of the rows with that name, or none.
get_domain(domain_name) == {d \in domains : d.domain = domain_name}

(***************************************************************************)
(* app/crud/crud_link.py: queries.  A query result is the set of rows      *)
(* .first() can return (empty: None).                                       *)
(***************************************************************************)
get_link(db, link_id) == {l \in db : l.id = link_id}

\* The lookup without its is_active filter.
get_link_including_inactive(db, short_code, domain_id) ==
    {l \in db : l.short_code = short_code /\ l.domain_id = domain_id}

get_link_by_domain_and_short_code(db, short_code, domain_id) ==
    {l \in db : /\ l.short_code = short_code
                /\ l.domain_id = domain_id
                /\ l.is_active = TRUE}

\* crud_link.get_link_by_short_code(db, code), as generate_unique_short_code
\* calls it: the lookup has the code alone, no domain.
get_link_by_short_code(db, code) == {l \in db : l.short_code = code}

\* Link.id, Event.id: autoincrement primary keys (the least id no row holds).
NextId(rows) ==
    CHOOSE i \in 1..(Cardinality(rows) + 1) :
        /\ \A r \in rows : r.id # i
        /\ \A j \in 1..(i - 1) : \E r \in rows : r.id = j

\* A constraint that holds among the active rows only.
UniqueOkActiveOnly(db, domain_id, short_code) ==
    \A l \in db : ~(l.domain_id = domain_id /\ l.short_code = short_code
                     /\ l.is_active)

\* UniqueConstraint('domain_id', 'short_code') of links: does the insert of
\* a row with this pair pass.
UniqueOk(db, domain_id, short_code) ==
    \A l \in db : ~(l.domain_id = domain_id /\ l.short_code = short_code)

(***************************************************************************)
(* app/core/link_utils.py                                                   *)
(***************************************************************************)
is_password_protected(link_data) == Truthy(Get(link_data, "password", None))

verify_password(link_data, password) == Get(link_data, "password", None) = password

is_expired(link_data, utcnow) ==
    LET expires_at == Get(link_data, "expires_at", NoTime)
    IN  IF expires_at = NoTime THEN FALSE ELSE utcnow > expires_at[1]

should_track(link_data) == Get(link_data, "track", TRUE)

\* A user agent is a sequence of one-character strings; 'word in text'.
AndroidWord == <<"a", "n", "d", "r", "o", "i", "d">>
IphoneWord == <<"i", "p", "h", "o", "n", "e">>
IpadWord == <<"i", "p", "a", "d">>
Contains(text, word) ==
    \E i \in 0..(Len(text) - Len(word)) : SubSeq(text, i + 1, i + Len(word)) = word

\* The ValueError the processors raise, in the place of the url returned.
RaisedValueError == <<"ValueError">>

\* LinkProcessor._process_simple_link
_process_simple_link(link_data) == Get(link_data, "url", NoUrl)

\* A rotation that always picks the first url.
_process_round_robin_first(link_data, time) ==
    LET urls == Get(link_data, "urls", << >>) IN
    IF urls = << >> THEN RaisedValueError ELSE urls[1]

\* LinkProcessor._process_round_robin_link; time is int(time.time()), and
\* the Python index i is the index i + 1 of the sequence.
_process_round_robin_link(link_data, time) ==
    LET urls == Get(link_data, "urls", << >>) IN
    IF urls = << >> THEN RaisedValueError
    ELSE LET index == time % Len(urls) IN urls[index + 1]

\* Device detection that compares the user agent as it was sent.
_process_complex_case_sensitive(link_data, request_info) ==
    LET rules == Get(link_data, "rules", << >>) IN
    IF request_info = << >> THEN Get(rules, "else", NoUrl)
    ELSE LET user_agent == Get(request_info, "user_agent", << >>) IN
         IF Contains(user_agent, AndroidWord) /\ "android" \in DOMAIN rules
         THEN rules["android"]
         ELSE IF (Contains(user_agent, IphoneWord) \/ Contains(user_agent, IpadWord))
                 /\ "iphone" \in DOMAIN rules
         THEN rules["iphone"]
         ELSE Get(rules, "else", NoUrl)

\* LinkProcessor._process_complex_link; request_info is << >> when it is
\* None or empty, and the empty string of a url is NoUrl.
_process_complex_link(link_data, request_info) ==
    LET rules == Get(link_data, "rules", << >>) IN
    IF request_info = << >> THEN Get(rules, "else", NoUrl)
    ELSE LET user_agent == Lower(Get(request_info, "user_agent", << >>)) IN
         IF Contains(user_agent, AndroidWord) /\ "android" \in DOMAIN rules
         THEN rules["android"]
         ELSE IF (Contains(user_agent, IphoneWord) \/ Contains(user_agent, IpadWord))
                 /\ "iphone" \in DOMAIN rules
         THEN rules["iphone"]
         ELSE Get(rules, "else", NoUrl)

\* LinkProcessor.process_link_redirect
process_link_redirect(link_data, request_info, time) ==
    LET link_type == Get(link_data, "type", "simple") IN
    IF link_type = "simple" THEN _process_simple_link(link_data)
    ELSE IF link_type = "round_robin" THEN _process_round_robin_link(link_data, time)
    ELSE IF link_type = "complex" THEN _process_complex_link(link_data, request_info)
    ELSE RaisedValueError

(***************************************************************************)
(* app/core/short_code.py: generate_unique_short_code.  cands[i] is the    *)
(* code generate_short_code returns in round i; the loop returns the first *)
(* one for which the lookup finds no link, or None after max_attempts      *)
(* rounds.                                                                  *)
(***************************************************************************)
RECURSIVE FirstFree(_, _, _, _)
FirstFree(db, cands, i, max_attempts) ==
    IF i > max_attempts THEN NoCode
    ELSE IF get_link_by_short_code(db, cands[i]) = {} THEN cands[i]
    ELSE FirstFree(db, cands, i + 1, max_attempts)

generate_unique_short_code(db, cands, max_attempts) ==
    FirstFree(db, cands, 1, max_attempts)

Candidates == [1..MaxAttempts -> generate_short_code(SHORT_CODE_LENGTH)]
\* The draws of one call: after the round that returns no code is drawn
\* (written here as the returned code repeated).
Drawn(db) ==
    {cands \in Candidates :
        \A i \in 1..(MaxAttempts - 1) :
            get_link_by_short_code(db, cands[i]) = {} => cands[i + 1] = cands[i]}

\* With a short code in the request no candidate is drawn.
NoCandidates == {[i \in 1..MaxAttempts |-> NoCode]}

(***************************************************************************)
(* Requests.                                                                *)
(***************************************************************************)
Code(ch, n) == [i \in 1..n |-> ch]

\* Requested short codes: none; a code the generator can also produce, written
\* with a capital; one with the ambiguous letter l; one outside the pattern.
CodeInputs ==
    { NoCode,
      <<"A">> \o Code("a", SHORT_CODE_LENGTH - 1),
      <<"l", "a">>,
      <<"a", "!">> }

\* The (domain, short code) pairs of POST /links: every code on the usable
\* domains, one valid code on the others.
CreateInputs ==
    ({"d1.test", "d2.test"} \X CodeInputs)
        \cup ((DomainInputs \ {"d1.test", "d2.test"})
                \X {<<"A">> \o Code("a", SHORT_CODE_LENGTH - 1)})

\* The codes a lookup is made with.
LookupCodes == generate_short_code(SHORT_CODE_LENGTH)
LookupDomains == {"d1.test", "d2.test"}

LinkIds == 1..MaxLinks
EventTypes == {"CLICK"}

\* The dicts PUT /links/{id} carries.
UpdateInputs ==
    { [is_active |-> FALSE],
      [is_active |-> TRUE],
      [short_code |-> Code("B", SHORT_CODE_LENGTH)] }
ResolveUpdateInputs ==
    { [is_active |-> FALSE],
      [is_active |-> TRUE],
      [data |-> [type |-> "simple", url |-> UrlC, password |-> "q"]] }

(***************************************************************************)
(* Responses.  last is the response of the most recent request.            *)
(***************************************************************************)
NoBody == [short_code |-> NoCode]

Response(op, kind, domain, short_code, password, id, redirect_url, body) ==
    [op |-> op, kind |-> kind, domain |-> domain, short_code |-> short_code,
     password |-> password, id |-> id, redirect_url |-> redirect_url,
     requires_password |-> (kind = "PasswordRequired"), link_data |-> body]

NoResponse == Response("none", "none", None, NoCode, None, 0, NoUrl, NoBody)

(***************************************************************************)
(* app/services/link_service.py: LinkService.create_link, reached from     *)
(* POST /links with the LinkCreate schema already validated, and           *)
(* crud_link.create_link.                                                   *)
(***************************************************************************)
\* create_link without the lookup of the requested short code.
CreateChecksNoLookup(db, domain_id, raw_code, cands) ==
    IF raw_code # NoCode /\ ~ShortCodePattern(raw_code)
    THEN [kind |-> "ValidationError", short_code |-> raw_code]
    ELSE
    LET sc == validate_short_code(raw_code) IN
    IF sc # NoCode /\ ~is_valid_short_code(sc)
    THEN [kind |-> "InvalidShortCode", short_code |-> sc]
    ELSE
    LET code == IF sc = NoCode
                THEN generate_unique_short_code(db, cands, MaxAttempts)
                ELSE sc
    IN
    IF code = NoCode
    THEN [kind |-> "GenerationFailed", short_code |-> code]
    ELSE IF get_domain(domain_id) = {}
    THEN [kind |-> "DomainNotFound", short_code |-> code]
    ELSE IF \E d \in get_domain(domain_id) : ~d.verified
    THEN [kind |-> "DomainNotVerified", short_code |-> code]
    ELSE [kind |-> "Checked", short_code |-> code]

\* create_link without the test of what generate_unique_short_code returned.
CreateChecksNoneAccepted(db, domain_id, raw_code, cands) ==
    IF raw_code # NoCode /\ ~ShortCodePattern(raw_code)
    THEN [kind |-> "ValidationError", short_code |-> raw_code]
    ELSE
    LET sc == validate_short_code(raw_code) IN
    IF sc # NoCode /\ ~is_valid_short_code(sc)
    THEN [kind |-> "InvalidShortCode", short_code |-> sc]
    ELSE IF get_link_by_domain_and_short_code(db, sc, domain_id) # {}
    THEN [kind |-> "AlreadyInUse", short_code |-> sc]
    ELSE
    LET code == IF sc = NoCode
                THEN generate_unique_short_code(db, cands, MaxAttempts)
                ELSE sc
    IN
    IF get_domain(domain_id) = {}
    THEN [kind |-> "DomainNotFound", short_code |-> code]
    ELSE IF \E d \in get_domain(domain_id) : ~d.verified
    THEN [kind |-> "DomainNotVerified", short_code |-> code]
    ELSE [kind |-> "Checked", short_code |-> code]

\* The result of the checks of create_link, in the order the code makes them,
\* and the short code the link gets.
CreateChecks(db, domain_id, raw_code, cands) ==
    IF raw_code # NoCode /\ ~ShortCodePattern(raw_code)
    THEN [kind |-> "ValidationError", short_code |-> raw_code]
    ELSE
    LET sc == validate_short_code(raw_code) IN
    IF sc # NoCode /\ ~is_valid_short_code(sc)
    THEN [kind |-> "InvalidShortCode", short_code |-> sc]
    ELSE IF get_link_by_domain_and_short_code(db, sc, domain_id) # {}
    THEN [kind |-> "AlreadyInUse", short_code |-> sc]
    ELSE
    LET code == IF sc = NoCode
                THEN generate_unique_short_code(db, cands, MaxAttempts)
                ELSE sc
    IN
    IF code = NoCode
    THEN [kind |-> "GenerationFailed", short_code |-> code]
    ELSE IF get_domain(domain_id) = {}
    THEN [kind |-> "DomainNotFound", short_code |-> code]
    ELSE IF \E d \in get_domain(domain_id) : ~d.verified
    THEN [kind |-> "DomainNotVerified", short_code |-> code]
    ELSE [kind |-> "Checked", short_code |-> code]

\* crud_link.create_link: the row it adds.
NewLink(db, domain_id, short_code, title, data) ==
    [id |-> NextId(db),
     domain_id |-> domain_id,
     short_code |-> short_code,
     is_active |-> TRUE,
     link_data |-> data @@ [title |-> title, description |-> None, tags |-> << >>]]

\* db.add(db_link); db.commit(): the insert passes the unique constraint or
\* raises IntegrityError, which the endpoint turns into a 500.
InsertLink(db, link) ==
    IF UniqueOk(db, link.domain_id, link.short_code) THEN db \cup {link} ELSE db

CreateLink(domain_id, raw_code, title, data, cands) ==
    LET chk == CreateChecks(links, domain_id, raw_code, cands)
        link == NewLink(links, domain_id, chk.short_code, title, data)
        ok == chk.kind = "Checked" /\ UniqueOk(links, domain_id, chk.short_code)
        kind == IF chk.kind # "Checked" THEN chk.kind
                ELSE IF ok THEN "Created" ELSE "IntegrityError"
    IN  /\ Cardinality(links) < MaxLinks
        /\ links' = IF chk.kind = "Checked" THEN InsertLink(links, link) ELSE links
        /\ deleted_keys' = IF links' # links
                           THEN deleted_keys \ {<<domain_id, chk.short_code>>}
                           ELSE deleted_keys
        /\ last' = Response("create", kind, domain_id, chk.short_code, None,
                            IF ok THEN link.id ELSE 0, NoUrl, NoBody)
        /\ UNCHANGED <<events, now, pc, req, space_users, space_req>>

(***************************************************************************)
(* LinkService.update_link and crud_link.update_link.                       *)
(***************************************************************************)
UpdateChecks(db, db_link, update_data) ==
    LET sc == Get(update_data, "short_code", NoCode) IN
    IF sc # NoCode /\ sc # db_link.short_code
    THEN IF ~is_valid_short_code(sc) THEN "InvalidShortCode"
         ELSE IF \E e \in get_link_by_domain_and_short_code(db, sc, db_link.domain_id) :
                    e.id # db_link.id
         THEN "AlreadyInUse"
         ELSE "Checked"
    ELSE "Checked"

\* new_data.model_dump() of a link data model built from the fields the
\* request supplied: the fields of LinkDataBase it did not supply are dumped
\* with their defaults.
model_dump(new_data) ==
    new_data @@ [track |-> TRUE, password |-> None, expires_at |-> NoTime]

\* crud_link.update_link: the row after the update.
UpdatedLink(db_link, update_data) ==
    LET meta == [k \in DOMAIN update_data \cap {"title", "description", "tags"}
                    |-> update_data[k]]
        data == IF "data" \in DOMAIN update_data
                THEN model_dump(update_data["data"])
                ELSE << >>
    IN  [db_link EXCEPT
            !.is_active = Get(update_data, "is_active", @),
            !.link_data = data @@ meta @@ @]

UpdateLink(link_id, update_data) ==
    /\ IF get_link(links, link_id) = {}
       THEN /\ last' = Response("update", "NotFound", None, NoCode, None, link_id,
                                NoUrl, NoBody)
            /\ UNCHANGED links
       ELSE LET db_link == CHOOSE l \in get_link(links, link_id) : TRUE
                kind == UpdateChecks(links, db_link, update_data)
                new == UpdatedLink(db_link, update_data)
            IN  /\ links' = IF kind = "Checked"
                            THEN (links \ {db_link}) \cup {new}
                            ELSE links
                /\ last' = Response("update",
                                    IF kind = "Checked" THEN "Updated" ELSE kind,
                                    db_link.domain_id, db_link.short_code, None,
                                    link_id, NoUrl, NoBody)
    /\ UNCHANGED <<events, now, deleted_keys, pc, req, space_users, space_req>>

(***************************************************************************)
(* POST /links and PUT /links/{id} with the data of the body as it was     *)
(* sent: the LinkCreate and LinkUpdate models validate it, and a           *)
(* validation error ends the request before the service is called.         *)
(***************************************************************************)
PostLink(domain_id, raw_code, title, raw_data, cands) ==
    IF LinkDataAccepted(raw_data)
    THEN CreateLink(domain_id, raw_code, title,
                    model_dump(LinkDataFields(raw_data)), cands)
    ELSE /\ last' = Response("create", "ValidationError", domain_id, raw_code,
                             None, 0, NoUrl, NoBody)
         /\ UNCHANGED <<links, events, now, deleted_keys, pc, req, space_users, space_req>>

PutLink(link_id, update_data) ==
    IF "data" \in DOMAIN update_data /\ ~LinkDataAccepted(update_data["data"])
    THEN /\ last' = Response("update", "ValidationError", None, NoCode, None,
                             link_id, NoUrl, NoBody)
         /\ UNCHANGED <<links, events, now, deleted_keys, pc, req, space_users, space_req>>
    ELSE UpdateLink(link_id,
                    IF "data" \in DOMAIN update_data
                    THEN [update_data EXCEPT !["data"] = LinkDataFields(@)]
                    ELSE update_data)

(***************************************************************************)
(* POST /links with a body that lacks one of space_id, short_code and      *)
(* link_data, such as {"domain_id": ..., "url": ...}: the endpoint builds  *)
(* the payload itself.  With no short_code in the body it draws one:       *)
(* random.choices(string.ascii_letters + string.digits, k=8); draw is that *)
(* code.  The url becomes the data of a simple link.                        *)
(***************************************************************************)
ENDPOINT_CODE_LENGTH == 8

\* The draws of the endpoint: codes of one repeated character of ALPHABET.
EndpointDraws == {Code(ch, ENDPOINT_CODE_LENGTH) : ch \in {"a", "B", "L"}}

MinimalCreateLink(domain_id, url, title, draw) ==
    \E cands \in NoCandidates :
        PostLink(domain_id, draw, title, [type |-> "simple", url |-> url], cands)

(***************************************************************************)
(* DELETE /links/{id}: delete_link_endpoint and crud_link.delete_link.      *)
(* Link.events has no delete cascade and Event.link_id is not nullable:    *)
(* deleting a link that events reference fails in the commit (the endpoint *)
(* answers 500) and leaves both tables as they were.                        *)
(***************************************************************************)
DeleteOk(evs, db_link) == \A e \in evs : e.link_id # db_link.id

\* A delete that is never committed.
delete_link_uncommitted(db, db_link) == db

\* crud_link.delete_link: db.delete(db_link); db.commit()
delete_link(db, db_link) == db \ {db_link}

DeleteLink(link_id) ==
    /\ IF get_link(links, link_id) = {}
       THEN /\ last' = Response("delete", "NotFound", None, NoCode, None, link_id,
                                NoUrl, NoBody)
            /\ UNCHANGED <<links, deleted_keys>>
       ELSE LET db_link == CHOOSE l \in get_link(links, link_id) : TRUE
                ok == DeleteOk(events, db_link)
            IN  /\ links' = IF ok THEN delete_link(links, db_link) ELSE links
                /\ deleted_keys' =
                      IF ok
                      THEN deleted_keys \cup {<<db_link.domain_id, db_link.short_code>>}
                      ELSE deleted_keys
                /\ last' = Response("delete",
                                    IF ok THEN "Deleted" ELSE "IntegrityError",
                                    db_link.domain_id, db_link.short_code, None,
                                    link_id, NoUrl, NoBody)
    /\ UNCHANGED <<events, now, pc, req, space_users, space_req>>

(***************************************************************************)
(* app/crud/crud_event.py: create_event, and POST /events.                  *)
(***************************************************************************)
create_event(evs, link_id, type) ==
    evs \cup {[id |-> NextId(evs), link_id |-> link_id, type |-> type]}

CreateEventEndpoint(link_id, type) ==
    /\ Cardinality(events) < MaxEvents
    /\ IF get_link(links, link_id) = {}
       THEN /\ last' = Response("event", "NotFound", None, NoCode, None, link_id,
                                NoUrl, NoBody)
            /\ UNCHANGED events
       ELSE /\ events' = create_event(events, link_id, type)
            /\ last' = Response("event", "Created", None, NoCode, None, link_id,
                                NoUrl, NoBody)
    /\ UNCHANGED <<links, now, deleted_keys, pc, req, space_users, space_req>>

(***************************************************************************)
(* app/api/redirect.py: GET /go/{short_code}, redirect_link.                *)
(* recorded tells whether crud_event.create_event succeeds; a failure is   *)
(* caught and logged.                                                       *)
(***************************************************************************)
PasswordBlocked(link_data, password) ==
    /\ is_password_protected(link_data)
    /\ (~Truthy(password) \/ ~verify_password(link_data, password))

\* A body that echoes the stored password.
PasswordRequiredBodyWithPassword(link_data, short_code, domain) ==
    [short_code |-> short_code, domain |-> domain,
     title |-> Get(link_data, "password", None), has_password |-> TRUE]

PasswordRequiredBody(link_data, short_code, domain) ==
    [short_code |-> short_code, domain |-> domain,
     title |-> Get(link_data, "title", None), has_password |-> TRUE]

ResolvedBody(db_link, link_data, short_code, domain) ==
    [id |-> db_link.id, title |-> Get(link_data, "title", None),
     short_code |-> short_code, domain |-> domain,
     clicks |-> Get(link_data, "clicks", 0)]

\* redirect_link reading the destination under another key.
RedirectResponseOtherKey(db_link, short_code, domain, password) ==
    LET link_data == db_link.link_data
        target_url == Get(link_data, "original_url", NoUrl)
    IN  IF PasswordBlocked(link_data, password)
        THEN Response("redirect", "PasswordRequired", domain, short_code, password,
                      db_link.id, NoUrl,
                      PasswordRequiredBody(link_data, short_code, domain))
        ELSE IF target_url = NoUrl
        THEN Response("redirect", "BadRequest", domain, short_code, password,
                      db_link.id, NoUrl, NoBody)
        ELSE Response("redirect", "Resolved", domain, short_code, password,
                      db_link.id, target_url,
                      ResolvedBody(db_link, link_data, short_code, domain))

\* What redirect_link answers for the link it found.
RedirectResponse(db_link, short_code, domain, password) ==
    LET link_data == db_link.link_data
        target_url == Get(link_data, "url", NoUrl)
    IN  IF PasswordBlocked(link_data, password)
        THEN Response("redirect", "PasswordRequired", domain, short_code, password,
                      db_link.id, NoUrl,
                      PasswordRequiredBody(link_data, short_code, domain))
        ELSE IF target_url = NoUrl
        THEN Response("redirect", "BadRequest", domain, short_code, password,
                      db_link.id, NoUrl, NoBody)
        ELSE Response("redirect", "Resolved", domain, short_code, password,
                      db_link.id, target_url,
                      ResolvedBody(db_link, link_data, short_code, domain))

\* Does redirect_link reach the click logging for the link it found.
LogsClick(db_link, password) == ~PasswordBlocked(db_link.link_data, password)

\* redirect_link without the try/except around the click logging: a failed
\* create_event reaches the outer handler, which answers 400.
RedirectLinkUnguarded(short_code, domain, password, recorded) ==
    /\ recorded => Cardinality(events) < MaxEvents
    /\ IF get_link_by_domain_and_short_code(links, short_code, domain) = {}
       THEN /\ last' = Response("redirect", "NotFound", domain, short_code, password,
                                0, NoUrl, NoBody)
            /\ UNCHANGED events
       ELSE LET db_link ==
                    CHOOSE l \in get_link_by_domain_and_short_code(
                                     links, short_code, domain) : TRUE
            IN  /\ last' = IF LogsClick(db_link, password) /\ ~recorded
                           THEN Response("redirect", "BadRequest", domain, short_code,
                                         password, db_link.id, NoUrl, NoBody)
                           ELSE RedirectResponse(db_link, short_code, domain, password)
                /\ events' = IF LogsClick(db_link, password) /\ recorded
                             THEN create_event(events, db_link.id, "CLICK")
                             ELSE events
    /\ UNCHANGED <<links, now, deleted_keys, pc, req, space_users, space_req>>

RedirectLink(short_code, domain, password, recorded) ==
    /\ recorded => Cardinality(events) < MaxEvents
    /\ IF get_link_by_domain_and_short_code(links, short_code, domain) = {}
       THEN /\ last' = Response("redirect", "NotFound", domain, short_code, password,
                                0, NoUrl, NoBody)
            /\ UNCHANGED events
       ELSE LET db_link ==
                    CHOOSE l \in get_link_by_domain_and_short_code(
                                     links, short_code, domain) : TRUE
            IN  /\ last' = RedirectResponse(db_link, short_code, domain, password)
                /\ events' = IF LogsClick(db_link, password) /\ recorded
                             THEN create_event(events, db_link.id, "CLICK")
                             ELSE events
    /\ UNCHANGED <<links, now, deleted_keys, pc, req, space_users, space_req>>

(***************************************************************************)
(* app/services/link_service.py: LinkService.get_link_by_short_code.  With *)
(* increment_clicks it calls crud_link.increment_link_clicks, a function   *)
(* crud_link does not have: the call raises AttributeError.                 *)
(***************************************************************************)
\* A lookup that counts the click in the payload of the link.
ServiceLookupCounting(short_code, domain, increment_clicks) ==
    LET found == get_link_by_domain_and_short_code(links, short_code, domain) IN
    /\ last' = Response("lookup", IF found = {} THEN "NotFound" ELSE "Found",
                        domain, short_code, None,
                        IF found = {} THEN 0 ELSE (CHOOSE l \in found : TRUE).id,
                        NoUrl, NoBody)
    /\ links' = IF increment_clicks
                THEN (links \ found)
                        \cup {[l EXCEPT !.link_data =
                                    [clicks |-> Get(@, "clicks", 0) + 1] @@ @] :
                                l \in found}
                ELSE links
    /\ UNCHANGED <<events, now, deleted_keys, pc, req, space_users, space_req>>

ServiceLookup(short_code, domain, increment_clicks) ==
    LET found == get_link_by_domain_and_short_code(links, short_code, domain) IN
    /\ last' = Response("lookup",
                        IF found = {} THEN "NotFound"
                        ELSE IF increment_clicks THEN "AttributeError"
                        ELSE "Found",
                        domain, short_code, None,
                        IF found = {} THEN 0 ELSE (CHOOSE l \in found : TRUE).id,
                        NoUrl, NoBody)
    /\ UNCHANGED <<links, events, now, deleted_keys, pc, req, space_users, space_req>>

(***************************************************************************)
(* The wall clock advances between requests.                                *)
(***************************************************************************)
Tick ==
    /\ now < MaxTime
    /\ now' = now + 1
    /\ last' = NoResponse
    /\ UNCHANGED <<links, events, deleted_keys, pc, req, space_users, space_req>>

(***************************************************************************)
(* The service with its requests handled one at a time.                     *)
(***************************************************************************)
Workers == {"w1", "w2"}
NoRequest == [domain_id |-> None, short_code |-> NoCode, attempts |-> 0,
              kind |-> "none"]

\* The space_users rows of one space, as crud_space.create_space_with_owner
\* leaves them: the creator is its OWNER.  No request on the space is in
\* flight.
SpaceCreated == {[user_id |-> "u1", role |-> "OWNER"]}
NoSpaceRequest == [op |-> "none"]

Init ==
    /\ links = {}
    /\ events = {}
    /\ now = 0
    /\ last = NoResponse
    /\ deleted_keys = {}
    /\ pc = [w \in Workers |-> "idle"]
    /\ req = [w \in Workers |-> NoRequest]
    /\ space_users = SpaceCreated
    /\ space_req = [w \in Workers |-> NoSpaceRequest]

Create ==
    \E rq \in CreateInputs, title \in Titles, data \in DataInputs :
        \E cands \in (IF rq[2] = NoCode THEN Drawn(links) ELSE NoCandidates) :
            CreateLink(rq[1], rq[2], title, data, cands)

Update == \E link_id \in LinkIds, update_data \in UpdateInputs :
            UpdateLink(link_id, update_data)

Delete == \E link_id \in LinkIds : DeleteLink(link_id)

PostEvent == \E link_id \in LinkIds, type \in EventTypes :
                CreateEventEndpoint(link_id, type)

Redirect ==
    \E short_code \in LookupCodes, domain \in LookupDomains, recorded \in BOOLEAN :
        RedirectLink(short_code, domain, None, recorded)

Next == Create \/ Update \/ Delete \/ PostEvent \/ Redirect

Spec == Init /\ [][Next]_vars

(***************************************************************************)
(* The registry alone: the requests that write the links table.            *)
(***************************************************************************)
CreateNext == Create \/ Update \/ Delete

CreateSpec == Init /\ [][CreateNext]_vars

(***************************************************************************)
(* Payload validation: creates and updates on one domain whose bodies      *)
(* carry data of every variant, well formed and not.                        *)
(***************************************************************************)
RawDataInputs ==
    { [type |-> "simple", url |-> UrlA],
      [type |-> "simple", url |-> UrlPadded],
      [type |-> "simple", url |-> UrlFtp],
      [type |-> "simple", url |-> UrlBlank],
      [type |-> "simple"],
      [type |-> "round_robin", urls |-> <<UrlA, UrlB>>],
      [type |-> "round_robin", urls |-> << >>],
      [type |-> "round_robin", urls |-> <<UrlA, UrlFtp>>],
      [type |-> "complex", rules |-> [android |-> UrlA, else |-> UrlC]],
      [type |-> "complex", rules |-> [android |-> UrlA]],
      [type |-> "complex", rules |-> [else |-> UrlScript]],
      [type |-> "rule_based", rules |-> [else |-> UrlC]] }

RawUpdateInputs ==
    { [title |-> "U"] }
        \cup {[data |-> raw] :
                raw \in { [type |-> "simple", url |-> UrlC],
                          [type |-> "simple", url |-> UrlFtp],
                          [type |-> "round_robin", urls |-> <<UrlB>>],
                          [type |-> "round_robin", urls |-> << >>],
                          [type |-> "complex", rules |-> [iphone |-> UrlB]] }}

PayloadCreate ==
    \E title \in Titles, raw_data \in RawDataInputs :
        \E cands \in Drawn(links) :
            PostLink("d1.test", NoCode, title, raw_data, cands)

PayloadUpdate == \E link_id \in LinkIds, update_data \in RawUpdateInputs :
                    PutLink(link_id, update_data)

PayloadNext == PayloadCreate \/ PayloadUpdate

PayloadSpec == Init /\ [][PayloadNext]_vars

(***************************************************************************)
(* Allocation: creates of simple links that request no short code, with    *)
(* the minimal body and with the full one (short_code null), and the       *)
(* resolution of the links created.                                         *)
(***************************************************************************)
AllocUrls == {UrlA, UrlB}

AllocMinimalCreate ==
    \E url \in AllocUrls, title \in Titles, draw \in EndpointDraws :
        MinimalCreateLink("d1.test", url, title, draw)

AllocFullCreate ==
    \E url \in AllocUrls, title \in Titles, cands \in Drawn(links) :
        PostLink("d1.test", NoCode, title, [type |-> "simple", url |-> url], cands)

AllocRedirect ==
    \E short_code \in LookupCodes \cup {Lower(c) : c \in EndpointDraws},
       recorded \in BOOLEAN :
        RedirectLink(short_code, "d1.test", None, recorded)

AllocNext == AllocMinimalCreate \/ AllocFullCreate \/ AllocRedirect

AllocSpec == Init /\ [][AllocNext]_vars

(***************************************************************************)
(* generate_short_code called with lengths below, at and above the bounds  *)
(* of a short code.  last.id is the length asked for, last.short_code the  *)
(* code returned.                                                           *)
(***************************************************************************)
GenLengths ==
    (-1..MaxFullDraw)
        \cup {SHORT_CODE_LENGTH, MAX_SHORT_CODE_LENGTH, MAX_SHORT_CODE_LENGTH + 1}

GenInit ==
    /\ links = {}
    /\ events = {}
    /\ now = 0
    /\ last \in {Response("generate", "Called", None, NoCode, None, length,
                          NoUrl, NoBody) : length \in GenLengths}
    /\ deleted_keys = {}
    /\ pc = [w \in Workers |-> "idle"]
    /\ req = [w \in Workers |-> NoRequest]
    /\ space_users = SpaceCreated
    /\ space_req = [w \in Workers |-> NoSpaceRequest]

GenerateCode ==
    /\ last.op = "generate"
    /\ last.kind = "Called"
    /\ \E code \in GeneratedCodes(last.id) :
          last' = [last EXCEPT !.kind = "Generated", !.short_code = code]
    /\ UNCHANGED <<links, events, now, deleted_keys, pc, req, space_users, space_req>>

GenNext == GenerateCode

GenSpec == GenInit /\ [][GenNext]_vars

(***************************************************************************)
(* The resolution path: links of every payload on one domain, resolved     *)
(* with every password.                                                     *)
(***************************************************************************)
ResolveCreate ==
    \E title \in Titles, data \in ResolveDataInputs, cands \in Candidates :
        CreateLink("d1.test", NoCode, title, data, cands)

ResolveUpdate == \E link_id \in LinkIds, update_data \in ResolveUpdateInputs :
                    UpdateLink(link_id, update_data)

ResolveRedirect ==
    \E short_code \in LookupCodes, password \in Passwords, recorded \in BOOLEAN :
        RedirectLink(short_code, "d1.test", password, recorded)

ResolveNext == ResolveCreate \/ ResolveUpdate \/ PostEvent \/ ResolveRedirect \/ Tick

ResolveSpec == Init /\ [][ResolveNext]_vars

(***************************************************************************)
(* Reads: links of every payload on one domain, the resolution attempts    *)
(* and the service lookups on them, as the clock advances.                  *)
(***************************************************************************)
Lookup ==
    \E short_code \in LookupCodes, increment_clicks \in BOOLEAN :
        ServiceLookup(short_code, "d1.test", increment_clicks)

ReadNext == ResolveCreate \/ ResolveRedirect \/ Lookup \/ Tick

ReadSpec == Init /\ [][ReadNext]_vars

(***************************************************************************)
(* Concurrent POST /links requests without a short code.  The endpoint is  *)
(* a plain def, which FastAPI runs on a thread pool, each request with its *)
(* own session: the requests interleave between their database             *)
(* statements.  A request is at "idle" (none in flight; req holds the      *)
(* outcome of the last one), "generate" (in the loop of                    *)
(* generate_unique_short_code, req.attempts rounds done) or "insert"       *)
(* (code chosen, before the domain check and crud_link.create_link).       *)
(***************************************************************************)
ConcDomains == {"d1.test", "d2.test"}

\* create_link up to the call of generate_unique_short_code: no short code
\* was given, so the format check and the 'already in use' lookup pass.
BeginCreate(w, domain_id) ==
    /\ pc[w] = "idle"
    /\ Cardinality(links) < MaxLinks
    /\ pc' = [pc EXCEPT ![w] = "generate"]
    /\ req' = [req EXCEPT ![w] = [domain_id |-> domain_id, short_code |-> NoCode,
                                  attempts |-> 0, kind |-> "pending"]]
    /\ UNCHANGED <<links, events, now, last, deleted_keys, space_users, space_req>>

\* A loop that gives up at its first colliding candidate.
GenerateRoundGiveUp(w, code) ==
    /\ pc[w] = "generate"
    /\ IF get_link_by_short_code(links, code) = {}
       THEN /\ pc' = [pc EXCEPT ![w] = "insert"]
            /\ req' = [req EXCEPT ![w].short_code = code]
       ELSE /\ pc' = [pc EXCEPT ![w] = "idle"]
            /\ req' = [req EXCEPT ![w].attempts = @ + 1,
                                  ![w].kind = "GenerationFailed"]
    /\ UNCHANGED <<links, events, now, last, deleted_keys, space_users, space_req>>

\* One round of the loop of generate_unique_short_code: a candidate and its
\* lookup.  After max_attempts colliding rounds the function returns None and
\* create_link raises ValueError.
GenerateRound(w, code) ==
    /\ pc[w] = "generate"
    /\ IF get_link_by_short_code(links, code) = {}
       THEN /\ pc' = [pc EXCEPT ![w] = "insert"]
            /\ req' = [req EXCEPT ![w].short_code = code]
       ELSE IF req[w].attempts + 1 < MaxAttempts
       THEN /\ req' = [req EXCEPT ![w].attempts = @ + 1]
            /\ UNCHANGED pc
       ELSE /\ pc' = [pc EXCEPT ![w] = "idle"]
            /\ req' = [req EXCEPT ![w].attempts = @ + 1,
                                  ![w].kind = "GenerationFailed"]
    /\ UNCHANGED <<links, events, now, last, deleted_keys, space_users, space_req>>

\* The domain check and crud_link.create_link: the insert and its commit.
InsertCreate(w) ==
    /\ pc[w] = "insert"
    /\ LET domain_id == req[w].domain_id
           link == NewLink(links, domain_id, req[w].short_code, "T",
                           SimpleLinkData(UrlA, TRUE, None, NoTime))
           kind == IF get_domain(domain_id) = {} THEN "DomainNotFound"
                   ELSE IF \E d \in get_domain(domain_id) : ~d.verified
                   THEN "DomainNotVerified"
                   ELSE IF UniqueOk(links, domain_id, req[w].short_code)
                   THEN "Created"
                   ELSE "IntegrityError"
       IN  /\ links' = IF kind \in {"Created", "IntegrityError"}
                       THEN InsertLink(links, link)
                       ELSE links
           /\ req' = [req EXCEPT ![w].kind = kind]
    /\ pc' = [pc EXCEPT ![w] = "idle"]
    /\ UNCHANGED <<events, now, last, deleted_keys, space_users, space_req>>

ConcBegin == \E w \in Workers, domain_id \in ConcDomains : BeginCreate(w, domain_id)
ConcGenerate ==
    \E w \in Workers, code \in generate_short_code(SHORT_CODE_LENGTH) :
        GenerateRound(w, code)
ConcInsert == \E w \in Workers : InsertCreate(w)

ConcNext == ConcBegin \/ ConcGenerate \/ ConcInsert

ConcSpec == Init /\ [][ConcNext]_vars

\* A request in the loop is a running thread: its next round is taken.
ConcFairness ==
    \A w \in Workers :
        WF_vars(\E code \in generate_short_code(SHORT_CODE_LENGTH) :
                    GenerateRound(w, code))

ConcLiveSpec == ConcSpec /\ ConcFairness

(***************************************************************************)
(* app/api/spaces.py and app/crud/crud_space.py: the members of one space. *)
(* space_users holds the space_users rows of the space.  The endpoints are *)
(* plain defs, run on a thread pool, each request with its own session: a  *)
(* request first reads and checks, then calls the crud function that       *)
(* reads the row again, writes and commits; another request can commit in  *)
(* between.  space_req[w] is the request of worker w between its checks    *)
(* and its write.                                                           *)
(***************************************************************************)
users == {"u1", "u2", "u3"}
UserInputs == users \cup {"u9"}
RoleInputs == {"OWNER", "ADMIN", "MEMBER"}

\* crud_user.get_user and crud_space.get_space_user: the rows .first() can
\* return.
get_user(user_id) == {u \in users : u = user_id}
get_space_user(rows, user_id) == {r \in rows : r.user_id = user_id}

\* The role of a member, None for a user who is not one.
RoleOf(rows, user_id) ==
    IF get_space_user(rows, user_id) = {} THEN None
    ELSE (CHOOSE r \in get_space_user(rows, user_id) : TRUE).role

\* check_space_admin_or_owner and check_space_owner: do they raise 403.
check_space_admin_or_owner(rows, user_id) ==
    RoleOf(rows, user_id) \in {"ADMIN", "OWNER"}
check_space_owner(rows, user_id) == RoleOf(rows, user_id) = "OWNER"

\* The checks of add_user_to_space_endpoint, in the order the code makes
\* them.
AddUserChecks(rows, current_user, user_id, role) ==
    IF ~check_space_admin_or_owner(rows, current_user) THEN "Forbidden"
    ELSE IF get_user(user_id) = {} THEN "NotFound"
    ELSE IF get_space_user(rows, user_id) # {} THEN "BadRequest"
    ELSE IF role = "OWNER" /\ ~check_space_owner(rows, current_user) THEN "Forbidden"
    ELSE "Checked"

\* The checks of update_user_role_in_space_endpoint.
UpdateRoleChecks(rows, current_user, user_id, new_role) ==
    LET membership == RoleOf(rows, current_user)
        target == RoleOf(rows, user_id)
    IN  IF ~check_space_admin_or_owner(rows, current_user) THEN "Forbidden"
        ELSE IF target = None THEN "NotFound"
        ELSE IF current_user = user_id THEN "BadRequest"
        ELSE IF new_role = "OWNER" /\ membership # "OWNER" THEN "Forbidden"
        ELSE IF membership = "ADMIN" /\ target \in {"ADMIN", "OWNER"} THEN "Forbidden"
        ELSE IF membership = "ADMIN" /\ new_role \in {"ADMIN", "OWNER"} THEN "Forbidden"
        ELSE "Checked"

\* The checks of remove_user_from_space_endpoint.
RemoveUserChecks(rows, current_user, user_id) ==
    LET membership == RoleOf(rows, current_user)
        target == RoleOf(rows, user_id)
        owners_in_space == Cardinality({r \in rows : r.role = "OWNER"})
    IN  IF ~check_space_admin_or_owner(rows, current_user) THEN "Forbidden"
        ELSE IF target = None THEN "NotFound"
        ELSE IF current_user = user_id THEN "BadRequest"
        ELSE IF membership = "ADMIN" /\ target \in {"ADMIN", "OWNER"} THEN "Forbidden"
        ELSE IF target = "OWNER" /\ owners_in_space <= 1 THEN "BadRequest"
        ELSE "Checked"

SpaceChecks(rows, op, current_user, user_id, role) ==
    IF op = "add" THEN AddUserChecks(rows, current_user, user_id, role)
    ELSE IF op = "update" THEN UpdateRoleChecks(rows, current_user, user_id, role)
    ELSE RemoveUserChecks(rows, current_user, user_id)

\* crud_space.add_user_to_space: the insert passes
\* UniqueConstraint('space_id', 'user_id') or fails in the commit.
add_user_to_space(rows, user_id, role) ==
    IF get_space_user(rows, user_id) = {}
    THEN rows \cup {[user_id |-> user_id, role |-> role]}
    ELSE rows

\* crud_space.update_user_role_in_space
update_user_role_in_space(rows, user_id, new_role) ==
    {IF r.user_id = user_id THEN [r EXCEPT !.role = new_role] ELSE r : r \in rows}

\* crud_space.remove_user_from_space
remove_user_from_space(rows, user_id) == rows \ get_space_user(rows, user_id)

\* A request up to its crud call: its checks pass (a request that is
\* refused writes nothing and is over).  membership is the role the checks
\* read for the requester.
SpaceRequestChecks(w, op, current_user, user_id, role) ==
    /\ space_req[w] = NoSpaceRequest
    /\ SpaceChecks(space_users, op, current_user, user_id, role) = "Checked"
    /\ space_req' = [space_req EXCEPT ![w] =
                        [op |-> op, current_user |-> current_user,
                         user_id |-> user_id, role |-> role,
                         membership |-> RoleOf(space_users, current_user)]]
    /\ UNCHANGED <<links, events, now, last, deleted_keys, pc, req, space_users>>

\* The crud call of the request and its commit.
SpaceRequestWrite(w) ==
    /\ space_req[w] # NoSpaceRequest
    /\ LET r == space_req[w] IN
       space_users' =
          IF r.op = "add" THEN add_user_to_space(space_users, r.user_id, r.role)
          ELSE IF r.op = "update"
          THEN update_user_role_in_space(space_users, r.user_id, r.role)
          ELSE remove_user_from_space(space_users, r.user_id)
    /\ space_req' = [space_req EXCEPT ![w] = NoSpaceRequest]
    /\ UNCHANGED <<links, events, now, last, deleted_keys, pc, req>>

SpaceBegin ==
    \E w \in Workers, op \in {"add", "update", "remove"}, current_user \in users,
       user_id \in UserInputs, role \in RoleInputs :
        SpaceRequestChecks(w, op, current_user, user_id, role)

SpaceCommit == \E w \in Workers : SpaceRequestWrite(w)

SpaceNext == SpaceBegin \/ SpaceCommit

SpaceSpec == Init /\ [][SpaceNext]_vars

(***************************************************************************)
(* LinkProcessor.process_link_redirect applied to stored payloads of the   *)
(* three variants, with the request information of several clients, as    *)
(* the clock advances.                                                      *)
(***************************************************************************)
ProcessDataInputs ==
    { SimpleLinkData(UrlA, TRUE, None, NoTime),
      RoundRobinLinkData(<<UrlA>>, TRUE, None, NoTime),
      RoundRobinLinkData(<<UrlA, UrlB>>, TRUE, None, NoTime),
      RoundRobinLinkData(<<UrlA, UrlB, UrlC>>, TRUE, None, NoTime),
      ComplexLinkData([android |-> UrlA, iphone |-> UrlB, else |-> UrlC],
                      TRUE, None, NoTime),
      ComplexLinkData([android |-> UrlA, else |-> UrlC], TRUE, None, NoTime),
      ComplexLinkData([iphone |-> UrlB, else |-> UrlC], TRUE, None, NoTime),
      ComplexLinkData([else |-> UrlC], TRUE, None, NoTime),
      ComplexLinkData([android |-> UrlA], TRUE, None, NoTime) }

\* User agents: an Android phone, an iPhone, an iPad, a desktop, and a
\* Windows Phone, whose user agent names both Android and iPhone.
UserAgents ==
    { <<"M", "/", "A", "n", "d", "r", "o", "i", "d">>,
      <<"i", "P", "h", "o", "n", "e">>,
      <<"i", "P", "a", "d">>,
      <<"X", "1", "1">>,
      <<"A", "n", "d", "r", "o", "i", "d", ";", "i", "P", "h", "o", "n", "e">> }

\* request_info: none, one without a user agent, one per user agent.
RequestInfos ==
    {<< >>, [ip |-> "10.0.0.1"]} \cup {[user_agent |-> ua] : ua \in UserAgents}

ProcessInit ==
    /\ links \in {{NewLink({}, "d1.test", Code("a", SHORT_CODE_LENGTH), "T", data)} :
                        data \in ProcessDataInputs}
    /\ events = {}
    /\ now = 0
    /\ last = NoResponse
    /\ deleted_keys = {}
    /\ pc = [w \in Workers |-> "idle"]
    /\ req = [w \in Workers |-> NoRequest]
    /\ space_users = SpaceCreated
    /\ space_req = [w \in Workers |-> NoSpaceRequest]

ProcessLink(request_info) ==
    \E db_link \in links :
        LET url == process_link_redirect(db_link.link_data, request_info, now) IN
        /\ last' = Response("process",
                            IF url = RaisedValueError THEN "ValueError" ELSE "Processed",
                            db_link.domain_id, db_link.short_code, None, db_link.id,
                            url, [request_info |-> request_info])
        /\ UNCHANGED <<links, events, now, deleted_keys, pc, req, space_users, space_req>>

Process == \E request_info \in RequestInfos : ProcessLink(request_info)

ProcessNext == Process \/ Tick

ProcessSpec == ProcessInit /\ [][ProcessNext]_vars

(***************************************************************************)
(* Properties.                                                              *)
(*                                                                         *)
(* Every request sets last, and every request that changes links sets      *)
(* last.op to its own name: while last.op = "redirect", links is the table *)
(* the redirect read, and now is the time it ran at.                        *)
(***************************************************************************)
LinksAt(domain, short_code) ==
    {l \in links : l.domain_id = domain /\ l.short_code = short_code}

StoredPassword(l) == Get(l.link_data, "password", None)

\* The urls a payload can lead to.
Destinations(link_data) ==
    (IF "url" \in DOMAIN link_data THEN {link_data.url} ELSE {})
    \cup (IF "urls" \in DOMAIN link_data THEN Range(link_data.urls) ELSE {})
    \cup (IF "rules" \in DOMAIN link_data THEN Range(link_data.rules) ELSE {})

\* C1: a resolution attempt on an active link whose expires_at is set and in
\* the past ends in Expired and yields no destination, whatever password is
\* supplied.
C1_ExpiredNeverResolves ==
    last.op = "redirect" =>
        \A l \in LinksAt(last.domain, last.short_code) :
            (l.is_active /\ is_expired(l.link_data, now)) =>
                (last.kind = "Expired" /\ last.redirect_url = NoUrl)

\* C2: on an active, non-expired link with a password set, the stored
\* password resolves to the destination, and no password or another password
\* ends in PasswordRequired without a destination.
C2_PasswordGate ==
    last.op = "redirect" =>
        \A l \in LinksAt(last.domain, last.short_code) :
            (l.is_active /\ ~is_expired(l.link_data, now)
                /\ Truthy(StoredPassword(l))) =>
                IF last.password = StoredPassword(l)
                THEN /\ last.kind = "Resolved"
                     /\ last.redirect_url \in Destinations(l.link_data)
                ELSE /\ last.kind = "PasswordRequired"
                     /\ last.redirect_url = NoUrl

\* C3: the PasswordRequired outcome does not depend on the stored password:
\* the response given is the response the same attempt gets from the link
\* with any other stored password the attempt does not match, and no field
\* of it is the stored password.
C3_PasswordNotDisclosed ==
    (last.op = "redirect" /\ last.kind = "PasswordRequired") =>
        \A l \in LinksAt(last.domain, last.short_code) :
            /\ \A other \in {"p", "q", "r"} \ {last.password} :
                  RedirectResponse([l EXCEPT !.link_data = [password |-> other] @@ @],
                                   last.short_code, last.domain, last.password)
                      = last
            /\ last.redirect_url = NoUrl
            /\ DOMAIN last.link_data = {"short_code", "domain", "title", "has_password"}
            /\ last.link_data.title # StoredPassword(l)
            /\ last.link_data.domain # StoredPassword(l)

C3_Witness ==
    /\ last.op = "redirect"
    /\ last.kind = "PasswordRequired"
    /\ last.password = "q"
    /\ \E l \in LinksAt(last.domain, last.short_code) : StoredPassword(l) = "p"

\* C4: a resolution attempt on a (domain, code) with no link, or with an
\* inactive link, ends in NotFound, yields no destination and records no
\* event.
C4_NotFound ==
    [][ (/\ last'.op = "redirect"
         /\ \A l \in LinksAt(last'.domain, last'.short_code) : ~l.is_active)
        => (/\ last'.kind = "NotFound"
            /\ last'.redirect_url = NoUrl
            /\ events' = events) ]_vars

C4_Witness ==
    /\ last.op = "redirect"
    /\ last.kind = "NotFound"
    /\ last.password = "p"
    /\ \E l \in LinksAt(last.domain, last.short_code) :
            ~l.is_active /\ StoredPassword(l) = "p"

\* C5: no two stored links, active or inactive, have the same
\* (domain, short_code).
C5_UniqueKey ==
    \A l1 \in links, l2 \in links :
        (l1.domain_id = l2.domain_id /\ l1.short_code = l2.short_code) => l1 = l2

\* A create on the key of a deactivated link passed the service's lookup and
\* was refused by the insert.
C5_Witness ==
    /\ last.op = "create"
    /\ last.kind = "IntegrityError"
    /\ \E l \in LinksAt(last.domain, last.short_code) : ~l.is_active

\* C6: concurrent creates without a short code never store the same
\* (domain, code) twice, and a conflict between them is retried: no create
\* ends in the failure of its insert.
C6_AtomicAllocation ==
    /\ \A l1 \in links, l2 \in links :
        (l1.domain_id = l2.domain_id /\ l1.short_code = l2.short_code) => l1 = l2
    /\ \A w \in Workers : req[w].kind # "IntegrityError"

\* C7: generate_unique checks its candidates against the codes of the target
\* domain only: the code it returns is not the code of an active link of the
\* domain, and it returns the first candidate no link of the domain uses.
C7_DomainScoped ==
    \A domain \in LookupDomains, cands \in Candidates :
        LET code == generate_unique_short_code(links, cands, MaxAttempts) IN
        /\ code # NoCode => \A l \in LinksAt(domain, code) : ~l.is_active
        /\ \A i \in 1..MaxAttempts :
              (/\ LinksAt(domain, cands[i]) = {}
               /\ \A j \in 1..(i - 1) : LinksAt(domain, cands[j]) # {})
              => code = cands[i]

\* C8: once a link is deleted, every resolution attempt on its
\* (domain, code) ends in NotFound until a link is created on that pair
\* (deleted_keys holds the pairs deleted and not created again).
C8_DeletedNotFound ==
    (last.op = "redirect" /\ <<last.domain, last.short_code>> \in deleted_keys)
        => (last.kind = "NotFound" /\ last.redirect_url = NoUrl)

C8_Witness ==
    /\ last.op = "redirect"
    /\ <<last.domain, last.short_code>> \in deleted_keys
    /\ last.kind = "NotFound"
    /\ links # {}

\* C9: a delete request for an existing link removes the link and every
\* event that references it, and every stored event references a stored
\* link.
C9_DeleteCascades ==
    /\ [][ (last'.op = "delete" /\ last'.kind # "NotFound" /\ last' # last)
           => (/\ \A l \in links' : l.id # last'.id
               /\ \A e \in events' : e.link_id # last'.id) ]_vars
    /\ [](\A e \in events : \E l \in links : l.id = e.link_id)

\* C10: events are added only by a resolution attempt that ends in Resolved,
\* and a stored event stays as it is.
C10_EventsOnlyWhenResolved ==
    [][ /\ events' # events => (last'.op = "redirect" /\ last'.kind = "Resolved")
        /\ \A e \in events : e \in events' ]_vars

\* C11: a failure to record the click event does not change the outcome: a
\* resolution attempt that records no event on an active link with a url,
\* with no password set or the stored password supplied, ends in Resolved
\* with the stored url.
C11_RecordingFailureIgnored ==
    [][ (last'.op = "redirect" /\ events' = events) =>
            \A l \in LinksAt(last'.domain, last'.short_code) :
                (/\ l.is_active
                 /\ "url" \in DOMAIN l.link_data
                 /\ (~Truthy(StoredPassword(l)) \/ last'.password = StoredPassword(l)))
                => (last'.kind = "Resolved" /\ last'.redirect_url = l.link_data.url)
      ]_vars

\* A resolution ended in Resolved and no event was ever stored.
C11_Witness ==
    /\ last.op = "redirect"
    /\ last.kind = "Resolved"
    /\ last.redirect_url = UrlA
    /\ events = {}

C13_RoundRobinRotation ==
    last.op = "process" =>
        \A l \in links :
            Get(l.link_data, "type", "simple") = "round_robin" =>
                LET urls == l.link_data.urls
                    N == Len(urls)
                IN  /\ N >= 1
                    /\ \E i \in 1..N : i - 1 = now % N /\ last.redirect_url = urls[i]
                    /\ _process_round_robin_link(l.link_data, now + N) = last.redirect_url
                    /\ \A i \in 1..N :
                          \E t \in now..(now + N - 1) :
                              _process_round_robin_link(l.link_data, t) = urls[i]

\* The rotation over three urls answered the second url at second 1.
C13_Witness ==
    /\ last.op = "process"
    /\ now = 1
    /\ last.redirect_url = UrlB
    /\ \E l \in links : Get(l.link_data, "type", "simple") = "round_robin"
                            /\ Len(l.link_data.urls) = 3

\* The lowered user agent of a request, empty when the request information
\* or its user agent is missing.
UserAgentOf(request_info) ==
    IF request_info = << >> THEN << >>
    ELSE Lower(Get(request_info, "user_agent", << >>))

C15_SimpleResolves ==
    last.op = "redirect" =>
        \A l \in LinksAt(last.domain, last.short_code) :
            (/\ l.is_active
             /\ Get(l.link_data, "type", "simple") = "simple"
             /\ ~is_expired(l.link_data, now)
             /\ (~Truthy(StoredPassword(l)) \/ last.password = StoredPassword(l)))
            => (last.kind = "Resolved" /\ last.redirect_url = l.link_data.url)

\* A simple link whose payload an update replaced resolved, with its
\* password, to the new url.
C15_Witness ==
    /\ last.op = "redirect"
    /\ last.kind = "Resolved"
    /\ last.password = "q"
    /\ last.redirect_url = UrlC
    /\ \E l \in LinksAt(last.domain, last.short_code) :
            Get(l.link_data, "type", "simple") = "simple"

\* C16: a resolution attempt on an active link that passes the expiry and
\* password checks ends in Resolved with the url of its variant: the simple
\* url, the round_robin url of the current second, or one of the rule urls.
C16_VariantDispatch ==
    last.op = "redirect" =>
        \A l \in LinksAt(last.domain, last.short_code) :
            (/\ l.is_active
             /\ ~is_expired(l.link_data, now)
             /\ (~Truthy(StoredPassword(l)) \/ last.password = StoredPassword(l)))
            => /\ last.kind = "Resolved"
               /\ LET type == Get(l.link_data, "type", "simple") IN
                  IF type = "simple" THEN last.redirect_url = l.link_data.url
                  ELSE IF type = "round_robin"
                  THEN last.redirect_url
                          = l.link_data.urls[(now % Len(l.link_data.urls)) + 1]
                  ELSE last.redirect_url \in Range(l.link_data.rules)

\* The fields an update request supplies: its own keys and the keys of its
\* data.
Supplied(update_data) ==
    (DOMAIN update_data \ {"data"})
        \cup (IF "data" \in DOMAIN update_data THEN DOMAIN update_data["data"] ELSE {})

C20_DomainVerifiedActive ==
    /\ (last.op = "create" /\ last.kind = "Created")
          => \E d \in get_domain(last.domain) : d.verified /\ d.is_active
    /\ \A l \in links : \E d \in get_domain(l.domain_id) : d.verified /\ d.is_active

\* C21: every stored round_robin payload has at least one url and every
\* stored rule_based payload has the key else; a create or update whose
\* payload has no url in urls, or no else in rules, is rejected and leaves the
\* stored links as they were.
C21_PayloadShape ==
    /\ [](\A l \in links :
            LET type == Get(l.link_data, "type", "simple") IN
            /\ type = "round_robin" => Len(l.link_data.urls) >= 1
            /\ type = "complex" => "else" \in DOMAIN l.link_data.rules)
    /\ [][ \A raw \in RawDataInputs \cup {u["data"] : u \in RawUpdateInputs \ {[title |-> "U"]}} :
            (/\ \/ \E title \in Titles, cands \in Candidates :
                      PostLink("d1.test", NoCode, title, raw, cands)
                \/ \E link_id \in LinkIds : PutLink(link_id, [data |-> raw])
             /\ \/ Get(raw, "type", "simple") = "round_robin"
                      /\ Get(raw, "urls", << >>) = << >>
                \/ Get(raw, "type", "simple") = "complex"
                      /\ "else" \notin DOMAIN Get(raw, "rules", << >>))
            => (links' = links /\ last'.kind = "ValidationError")
         ]_vars

\* C22: every destination url of a stored payload (the simple url, each
\* round_robin url, each rule value) begins with http:// or https://.
C22_HttpUrlsOnly ==
    \A l \in links : \A url \in Destinations(l.link_data) : StartsWithHttp(url)

\* The form of a short code: characters of [A-Za-z0-9_-] only, at most
\* MAX_SHORT_CODE_LENGTH of them.
ShortCodeForm(code) ==
    ShortCodePattern(code) /\ Len(code) <= MAX_SHORT_CODE_LENGTH

\* C23: the short code of every stored link, requested or generated, has
\* the form of a short code and is lowercase; and no create is refused for
\* the format of a requested code that has that form.
C23_ShortCodeFormat ==
    /\ \A l \in links :
          ShortCodeForm(l.short_code) /\ Lower(l.short_code) = l.short_code
    /\ (last.op = "create" /\ last.kind \in {"ValidationError", "InvalidShortCode"})
          => ~ShortCodeForm(last.short_code)

\* C24: a create of a simple link on a verified domain that requests no
\* short code is not refused for its code and allocates a code of
\* SHORT_CODE_LENGTH characters of the generator's alphabet; a resolution of
\* (domain, allocated code) ends in Resolved with the url given at creation.
C24_AllocateAndResolve ==
    /\ last.op = "create" =>
          /\ last.kind # "InvalidShortCode"
          /\ last.kind = "Created" =>
                /\ Len(last.short_code) = SHORT_CODE_LENGTH
                /\ Range(last.short_code) \subseteq SAFE_ALPHABET
    /\ last.op = "redirect" =>
          \A l \in LinksAt(last.domain, last.short_code) :
              last.kind = "Resolved" /\ last.redirect_url = l.link_data.url

\* C25: a resolution attempt and a service lookup leave every stored link
\* as it was, and the outcome of a resolution attempt is determined by its
\* inputs and the state it runs in: no attempt with the same inputs in the
\* same state has another outcome.
C25_ResolutionReadOnly ==
    [][ /\ last'.op \in {"redirect", "lookup"} => links' = links
        /\ last'.op = "redirect" =>
              \A short_code \in LookupCodes, password \in Passwords,
                 recorded \in BOOLEAN :
                  RedirectLink(short_code, "d1.test", password, recorded) =>
                      \E outcome \in {last'} :
                          \A again \in BOOLEAN :
                              ~ENABLED (/\ RedirectLink(short_code, "d1.test",
                                                        password, again)
                                        /\ last' # outcome)
      ]_vars

\* A resolution ended in Resolved after another attempt had recorded its
\* event.
C25_Witness ==
    /\ last.op = "redirect"
    /\ last.kind = "Resolved"
    /\ events # {}
    /\ \E l \in LinksAt(last.domain, last.short_code) : l.is_active

C27_UpdateShortCode ==
    [][ last'.op = "update" =>
        \A link_id \in LinkIds, update_data \in UpdateInputs :
            (UpdateLink(link_id, update_data) /\ "short_code" \in DOMAIN update_data) =>
                \A old \in get_link(links, link_id) :
                    LET sc == update_data["short_code"]
                        holders == {l \in links : /\ l.id # link_id
                                                  /\ l.domain_id = old.domain_id
                                                  /\ l.short_code = sc}
                    IN  /\ (is_valid_short_code(sc) /\ holders = {}) =>
                              \E new \in get_link(links', link_id) :
                                  /\ new.short_code = sc
                                  /\ Get(new.link_data, "url", NoUrl)
                                        = Get(old.link_data, "url", NoUrl)
                        /\ (\E l \in holders : l.is_active) =>
                              (last'.kind = "AlreadyInUse" /\ links' = links)
      ]_vars

\* C28 (as claimed): every code generate(length) returns has exactly
\* length characters, none of them ambiguous, and for a length up to
\* MAX_SHORT_CODE_LENGTH is accepted by is_valid.
C28_GenerateAsClaimed ==
    (last.op = "generate" /\ last.kind = "Generated") =>
        /\ Len(last.short_code) = last.id
        /\ Range(last.short_code) \cap AMBIGUOUS_CHARS = {}
        /\ last.id <= MAX_SHORT_CODE_LENGTH => is_valid_short_code(last.short_code)

\* C28 (amended): for a length of at least 1 the code has exactly length
\* characters, and for a length from 1 to MAX_SHORT_CODE_LENGTH it is
\* accepted by is_valid; for a length of 0 or less the code is empty, and
\* is_valid rejects it; no code has an ambiguous character.
C28_Generate ==
    (last.op = "generate" /\ last.kind = "Generated") =>
        /\ Len(last.short_code) = (IF last.id >= 1 THEN last.id ELSE 0)
        /\ Range(last.short_code) \cap AMBIGUOUS_CHARS = {}
        /\ (1 <= last.id /\ last.id <= MAX_SHORT_CODE_LENGTH)
              => is_valid_short_code(last.short_code)
        /\ last.id <= 0 => ~is_valid_short_code(last.short_code)

\* A code of the maximum length was generated, and it is valid.
C28_Witness ==
    /\ last.op = "generate"
    /\ last.kind = "Generated"
    /\ last.id = MAX_SHORT_CODE_LENGTH
    /\ Len(last.short_code) = MAX_SHORT_CODE_LENGTH
    /\ is_valid_short_code(last.short_code)

\* C29: a space with a member of role OWNER has one after every step of
\* every interleaving of add-user, update-role and remove-user requests.
C29_OwnerRemains ==
    [][ (\E r \in space_users : r.role = "OWNER")
            => (\E r \in space_users' : r.role = "OWNER") ]_vars

\* C30: the write of a request whose requester had the role ADMIN gives no
\* user the role ADMIN or OWNER, by add-user or by update-role.
C30_AdminCannotGrant ==
    [][ \A w \in Workers :
            (/\ space_req[w] # NoSpaceRequest
             /\ space_req'[w] = NoSpaceRequest
             /\ space_req[w].membership = "ADMIN")
            => \A r \in space_users' \ space_users : r.role \notin {"ADMIN", "OWNER"}
      ]_vars

====
